---- MODULE Spec2Model ----
(***************************************************************************)
(* Layout performed by create_pdf (src/main.rs): word wrapping of the text *)
(* runs of a document, vertical flow with page breaks, and placement of    *)
(* the extracted images.                                                   *)
(*                                                                         *)
(* Lengths are f32 millimetres in the source.  They are kept here in fixed *)
(* point, Milli units per millimetre.  Every cursor and coordinate the     *)
(* model reaches is a multiple of 0.5 mm, which f32 holds exactly; for the *)
(* images of ImageSet the f32 product img_height * scale rounds to exactly *)
(* the scaled height used here (127.5, 200 and 10 mm), and the scale is    *)
(* kept to three decimals.                                                 *)
(*                                                                         *)
(* Text is a sequence of Unicode code points; String::len is the UTF-8     *)
(* byte length, as in Rust.                                                *)
(***************************************************************************)
EXTENDS Integers, Sequences, FiniteSets, TLC

\* ------------------------------------------------------------- bounds
\* The document and the images are read as the loops of create_pdf reach them;
\* docx and images hold what has been read so far.
\* children, runs and images read in one call of create_pdf, taken together
MaxInputs == 4
\* lines of the long paragraph of the pagination scenario
LongLines == 30

\* ---------------------------------------------------------- constants
Milli == 1000
mm(x) == x * Milli

page_width == mm(210)
page_height == mm(297)
margin == mm(20)
line_height == mm(12)
font_size == 12
\* the literal 80 of the wrap test
W == 80
\* the literal 50 of the image page-break test
image_reserve == mm(50)
\* the literal 10.0 subtracted after an image
image_gap == mm(10)

\* ------------------------------------------------------------- text
\* ' ', the character pushed after every word
SPACE == 32

\* char::is_whitespace: the Unicode White_Space property
is_whitespace(c) ==
    \/ c \in 9..13
    \/ c \in {32, 133, 160, 5760, 8232, 8233, 8239, 8287, 12288}
    \/ c \in 8192..8202

\* str::len: the length in UTF-8 bytes, one per code point and one more for each
\* of the thresholds U+0080, U+0800 and U+10000 the code point reaches
len(s) ==
    Len(s) + Cardinality({i \in 1..Len(s) : s[i] >= 128})
           + Cardinality({i \in 1..Len(s) : s[i] >= 2048})
           + Cardinality({i \in 1..Len(s) : s[i] >= 65536})

\* positions where a word of s starts / ends
WordStarts(s) ==
    {i \in 1..Len(s) : ~is_whitespace(s[i]) /\ (i = 1 \/ is_whitespace(s[i-1]))}
WordEnds(s) ==
    {i \in 1..Len(s) : ~is_whitespace(s[i]) /\ (i = Len(s) \/ is_whitespace(s[i+1]))}
\* the k-th smallest element of a set of integers
Nth(S, k) == CHOOSE i \in S : Cardinality({j \in S : j < i}) = k - 1

\* str::split_whitespace: the maximal runs of non-whitespace, in order
split_whitespace(s) ==
    [k \in 1..Cardinality(WordStarts(s)) |->
        SubSeq(s, Nth(WordStarts(s), k), Nth(WordEnds(s), k))]

\* current_line.push_str(word); current_line.push(' ')
push_word(line, word) == line \o word \o <<SPACE>>
\* a buffer that loses the word that did not fit
format_word_dropped(word) == <<>>
\* format!("{} ", word)
format_word(word) == word \o <<SPACE>>

\* a font match whose first two arms are exchanged
font_of_swapped(properties) ==
    CASE properties = "Bold" -> "italic_font"
      [] properties = "Italic" -> "bold_font"
      [] OTHER -> "regular_font"
\* the font chosen for a run
font_of(properties) ==
    CASE properties = "Bold" -> "bold_font"
      [] properties = "Italic" -> "italic_font"
      [] OTHER -> "regular_font"

\* ------------------------------------------------------------ images
\* a scale that takes off one margin only
scale_of_one_margin(width) == ((page_width - margin) * Milli) \div (width * Milli)
\* scale = (page_width - 2 * margin) / width, in thousandths
scale_of(width) == ((page_width - 2 * margin) * Milli) \div (width * Milli)
\* scaled_height = img_height * scale, in Milli units
scaled_height_of(width, height) == height * scale_of(width)
\* the page-break test of the image loop
image_needs_page(y) == y < margin + image_reserve
\* the page-break test after a wrapped line
text_needs_page(y) == y < margin
\* a wrap test that also counts the space pushed after the word
fits_with_space(line, word) == len(line) + len(word) + 1 < W
\* a wrap test that lets the buffer reach W
fits_inclusive(line, word) == len(line) + len(word) <= W
\* the wrap test
fits(line, word) == len(line) + len(word) < W

\* ------------------------------------------------------------ inputs
\* a word of n letters "a"
Letters(n) == [i \in 1..n |-> 97]
\* a word of n letters U+00E9, two bytes each
Accented(n) == [i \in 1..n |-> 233]
\* n words of l letters separated by single spaces
WordsText(n, l) == [i \in 1..(n * (l + 1) - 1) |-> IF i % (l + 1) = 0 THEN SPACE ELSE 97]
\* "Hello world"
HelloWorld == <<72, 101, 108, 108, 111, 32, 119, 111, 114, 108, 100>>

\* words of 40, 39, 39 and 40 letters: the second meets the budget exactly
\* (41 + 39 = W) and wraps, the third fits beside it (40 + 39 < W)
BoundaryText ==
    Letters(40) \o <<SPACE>> \o Letters(39) \o <<SPACE>>
        \o Letters(39) \o <<SPACE>> \o Letters(40)

\* "Hello", a word of W letters, "world": a word that reaches the budget alone
\* between two short ones
OverlongAmid ==
    SubSeq(HelloWorld, 1, 6) \o Letters(W) \o SubSeq(HelloWorld, 6, 11)

TextSet ==
    { <<>>,
      <<SPACE, 9, SPACE>>,
      HelloWorld,
      Letters(W - 1),
      Letters(W),
      Letters(2 * W + 1),
      Accented(25) \o <<SPACE>> \o Accented(25),
      WordsText(2, 39),
      BoundaryText,
      OverlongAmid,
      WordsText(5, 20),
      WordsText(22, 40),
      WordsText(LongLines, 40) }

TextRun(t, p) == [kind |-> "Text", content |-> t, properties |-> p]
BreakRun == [kind |-> "Break", content |-> <<>>, properties |-> "None"]

\* the runs the first run of a document is drawn from
RunSet ==
    {TextRun(t, "None") : t \in TextSet}
    \cup {TextRun(HelloWorld, p) : p \in {"Bold", "Italic"}}
    \cup {BreakRun}

\* the runs every later run is drawn from: they probe the cursor the earlier
\* content left behind
FollowSet ==
    { TextRun(HelloWorld, "Bold"),
      TextRun(BoundaryText, "None"),
      TextRun(Letters(W), "Italic"),
      TextRun(<<>>, "None") }

InputRuns(n) == IF n = 0 THEN RunSet ELSE FollowSet

\* pixel dimensions of the decoded images: scaled heights 127.5, 200 and 10 mm
ImageSet ==
    { [width |-> 400, height |-> 300],
      [width |-> 170, height |-> 200],
      [width |-> 1700, height |-> 100] }

\* ------------------------------------------------------------- state
VARIABLES
    pc,             \* position in create_pdf
    docx,           \* the children of the document read so far
    images,         \* the images read so far
    nruns,          \* runs read so far
    font,           \* font of the current run
    words,          \* words of the current run not yet consumed
    current_line,   \* the line buffer
    y_position,     \* the cursor
    current_layer,  \* index of the page current_layer belongs to
    ops,            \* the calls made on the PDF document, in order
    args,           \* the command line and what it names
    steps,          \* the conversion steps main has started
    result,         \* how the process ended, "" while it runs
    output          \* the file at output_path

vars == <<pc, docx, images, nruns, font, words, current_line, y_position, current_layer, ops,
          args, steps, result, output>>

\* the inputs read so far
InputsRead == Len(docx) + nruns + Len(images)

NoSrc == <<0, 0>>

\* doc.add_page(...) issued when the cursor was at y
AddPageOp(page, y) ==
    [op |-> "add_page", page |-> page, x |-> 0, y |-> 0, font |-> "", text |-> <<>>,
     scale |-> 0, cursor |-> y, flush |-> "", src |-> NoSrc, width |-> 0, height |-> 0]

\* current_layer.use_text(text, font_size, Mm(x), Mm(y), font)
UseTextOp(page, x, y, f, text, cur, flush, src) ==
    [op |-> "use_text", page |-> page, x |-> x, y |-> y, font |-> f, text |-> text,
     scale |-> 0, cursor |-> cur, flush |-> flush, src |-> src, width |-> 0, height |-> 0]

\* image.add_to_layer(current_layer, ImageTransform {..})
AddImageOp(page, x, y, sc, cur, src, w, h) ==
    [op |-> "add_image", page |-> page, x |-> x, y |-> y, font |-> "", text |-> <<>>,
     scale |-> sc, cursor |-> cur, flush |-> "", src |-> src, width |-> w, height |-> h]

\* y coordinate handed to use_text by the flush inside the word loop
wrap_y(y) == page_height - y
\* y coordinate handed to use_text by the flush at the end of a run
final_y(y) == y
\* translate_y of an image
image_y(y, sh) == y - sh
\* a final flush that leaves the cursor where it is
after_flush_unmoved(y) == y
\* the cursor after the flush at the end of a run
after_flush(y) == y - line_height
\* the cursor after the last run of a paragraph
after_paragraph(y) == y - line_height
\* a cursor that forgets the gap below an image
after_image_no_gap(y, sh) == y - sh
\* the cursor after an image
after_image(y, sh) == y - (sh + image_gap)

\* the command lines tried: the number of arguments (the program name
\* included), whether input_path exists, whether it ends with ".docx"
ArgSet == [argc : {1, 2, 3, 4}, exists : BOOLEAN, docx_ext : BOOLEAN]

\* a validation that forgets the extension
valid_input_any_ext(a) == a.exists
\* the validation of the input file, negated in main
valid_input(a) == a.exists /\ a.docx_ext

\* the ways the steps of main between the validation and create_pdf can end
MainOutcomes == {"read_fails", "parse_fails", "extract_fails", "ok"}
\* the steps of main started when it ends in outcome o
StepsOf(o) ==
    CASE o = "read_fails" -> {"read"}
      [] o = "parse_fails" -> {"read", "parse"}
      [] OTHER -> {"read", "parse", "extract"}
\* the error main returns in outcome o
ErrorOf(o) ==
    CASE o = "read_fails" -> "Io"
      [] o = "parse_fails" -> "Docx"
      [] OTHER -> "Zip"

Init ==
    /\ pc = "main"
    /\ args \in ArgSet
    /\ steps = {}
    /\ result = ""
    /\ output = "before"
    /\ docx = <<>>
    /\ images = <<>>
    /\ nruns = 0
    /\ font = "regular_font"
    /\ words = <<>>
    /\ current_line = <<>>
    /\ y_position = page_height - margin
    /\ current_layer = 0
    /\ ops = <<>>

\* main up to the call of create_pdf: arguments, validation, read, parse,
\* extraction of the images
Main ==
    /\ pc = "main"
    /\ IF args.argc # 3
       THEN /\ pc' = "exit"
            /\ result' = "exit(1)"
            /\ UNCHANGED steps
       ELSE IF ~valid_input(args)
       THEN /\ pc' = "exit"
            /\ result' = "InvalidInput"
            /\ UNCHANGED steps
       ELSE \E o \in MainOutcomes :
            /\ steps' = StepsOf(o)
            /\ IF o = "ok"
               THEN pc' = "children" /\ UNCHANGED result
               ELSE pc' = "exit" /\ result' = ErrorOf(o)
    /\ UNCHANGED <<docx, images, nruns, font, words, current_line, y_position, current_layer,
                   ops, args, output>>

\* the loop over the children takes a paragraph
BeginParagraph ==
    /\ pc = "children"
    /\ InputsRead < MaxInputs
    /\ docx' = Append(docx, [kind |-> "Paragraph", runs |-> <<>>])
    /\ pc' = "runs"
    /\ UNCHANGED <<images, nruns, font, words, current_line, y_position, current_layer, ops, args, steps, result, output>>

\* the loop over the children takes a child that is no paragraph
SkipChild ==
    /\ pc = "children"
    /\ InputsRead < MaxInputs
    /\ docx' = Append(docx, [kind |-> "Table", runs |-> <<>>])
    /\ UNCHANGED <<pc, images, nruns, font, words, current_line, y_position, current_layer, ops, args, steps, result, output>>

AddRun(run) == [docx EXCEPT ![Len(docx)].runs = Append(@, run)]

\* the loop over the runs takes a text run: font, words, empty buffer
BeginRun ==
    /\ pc = "runs"
    /\ InputsRead < MaxInputs
    /\ \E run \in InputRuns(nruns) :
        /\ run.kind = "Text"
        /\ docx' = AddRun(run)
        /\ font' = font_of(run.properties)
        /\ words' = split_whitespace(run.content)
    /\ current_line' = <<>>
    /\ nruns' = nruns + 1
    /\ pc' = "words"
    /\ UNCHANGED <<images, y_position, current_layer, ops, args, steps, result, output>>

\* the loop over the runs takes a run that is not Run::Text
SkipRun ==
    /\ pc = "runs"
    /\ InputsRead < MaxInputs
    /\ \E run \in InputRuns(nruns) :
        /\ run.kind # "Text"
        /\ docx' = AddRun(run)
    /\ nruns' = nruns + 1
    /\ UNCHANGED <<pc, images, font, words, current_line, y_position, current_layer, ops, args, steps, result, output>>

CurSrc == <<Len(docx), Len(docx[Len(docx)].runs)>>

\* one iteration of the loop over the words
Word ==
    /\ pc = "words"
    /\ words # <<>>
    /\ LET word == Head(words) IN
        IF fits(current_line, word)
        THEN /\ current_line' = push_word(current_line, word)
             /\ UNCHANGED <<y_position, current_layer, ops>>
        ELSE LET emitted == UseTextOp(current_layer, margin, wrap_y(y_position), font,
                                      current_line, y_position, "wrap", CurSrc)
                 y1 == y_position - line_height
             IN /\ current_line' = format_word(word)
                /\ IF text_needs_page(y1)
                   THEN /\ ops' = ops \o <<emitted, AddPageOp(current_layer + 1, y1)>>
                        /\ current_layer' = current_layer + 1
                        /\ y_position' = page_height - margin
                   ELSE /\ ops' = Append(ops, emitted)
                        /\ y_position' = y1
                        /\ UNCHANGED current_layer
    /\ words' = Tail(words)
    /\ UNCHANGED <<pc, docx, images, nruns, font, args, steps, result, output>>

\* a flush that waits for a buffer with text in it
FlushRunWaitsForText ==
    /\ pc = "words"
    /\ words = <<>>
    /\ current_line # <<>>
    /\ ops' = Append(ops, UseTextOp(current_layer, margin, final_y(y_position), font,
                                    current_line, y_position, "final", CurSrc))
    /\ y_position' = after_flush(y_position)
    /\ pc' = "runs"
    /\ UNCHANGED <<docx, images, nruns, font, words, current_line, current_layer, args, steps, result, output>>

\* after the last word: flush what is left in the buffer
FlushRun ==
    /\ pc = "words"
    /\ words = <<>>
    /\ IF current_line # <<>>
       THEN /\ ops' = Append(ops, UseTextOp(current_layer, margin, final_y(y_position), font,
                                            current_line, y_position, "final", CurSrc))
            /\ y_position' = after_flush(y_position)
       ELSE UNCHANGED <<ops, y_position>>
    /\ pc' = "runs"
    /\ UNCHANGED <<docx, images, nruns, font, words, current_line, current_layer, args, steps, result, output>>

\* after the last run of a paragraph
EndParagraph ==
    /\ pc = "runs"
    /\ y_position' = after_paragraph(y_position)
    /\ pc' = "children"
    /\ UNCHANGED <<docx, images, nruns, font, words, current_line, current_layer, ops, args, steps, result, output>>

\* an image pass that starts over on the first page
EndChildrenFirstPage ==
    /\ pc = "children"
    /\ pc' = "images"
    /\ current_layer' = 0
    /\ y_position' = page_height - margin
    /\ UNCHANGED <<docx, images, nruns, font, words, current_line, ops, args, steps, result, output>>

\* after the last child
EndChildren ==
    /\ pc = "children"
    /\ pc' = "images"
    /\ UNCHANGED <<docx, images, nruns, font, words, current_line, y_position, current_layer, ops, args, steps, result, output>>

\* one iteration of the loop over the images
PlaceImage ==
    /\ pc = "images"
    /\ InputsRead < MaxInputs
    /\ \E img \in ImageSet :
        LET brk == image_needs_page(y_position)
            page == IF brk THEN current_layer + 1 ELSE current_layer
            y0 == IF brk THEN page_height - margin ELSE y_position
            scale == scale_of(img.width)
            scaled_height == scaled_height_of(img.width, img.height)
            placed == AddImageOp(page, margin, image_y(y0, scaled_height), scale, y0,
                                 <<Len(images) + 1, 0>>, img.width, img.height)
        IN /\ images' = Append(images, img)
           /\ ops' = IF brk THEN ops \o <<AddPageOp(page, y_position), placed>>
                            ELSE Append(ops, placed)
           /\ current_layer' = page
           /\ y_position' = after_image(y0, scaled_height)
    /\ UNCHANGED <<pc, docx, nruns, font, words, current_line, args, steps, result, output>>

\* the ways saving can end: File::create fails, save_to_bytes fails, write_all
\* fails before or after its first byte, all succeed
SaveOutcomes == {"create_fails", "serialize_fails", "write_fails_empty", "write_fails_partial", "ok"}

\* the file at output_path after File::create succeeded and then
\* save_to_bytes failed: created or truncated by then
output_after_serialize_error == "empty"

\* the file at output_path when saving ends in outcome o
OutputOf(o) ==
    CASE o = "create_fails" -> "before"
      [] o = "serialize_fails" -> output_after_serialize_error
      [] o = "write_fails_empty" -> "empty"
      [] o = "write_fails_partial" -> "partial"
      [] OTHER -> "written"

\* after the last image: File::create, save_to_bytes, write_all
Save ==
    /\ pc = "images"
    /\ \E o \in SaveOutcomes :
        /\ output' = OutputOf(o)
        /\ IF o = "ok"
           THEN pc' = "done" /\ result' = "Ok"
           ELSE /\ pc' = "failed"
                /\ result' = (IF o = "serialize_fails" THEN "Pdf" ELSE "Io")
    /\ UNCHANGED <<docx, images, nruns, font, words, current_line, y_position, current_layer,
                   ops, args, steps>>

Next ==
    \/ Main
    \/ BeginParagraph
    \/ SkipChild
    \/ BeginRun
    \/ SkipRun
    \/ Word
    \/ FlushRun
    \/ EndParagraph
    \/ EndChildren
    \/ PlaceImage
    \/ Save

Spec == Init /\ [][Next]_vars

\* the process is one thread that runs to completion
FairSpec == Spec /\ WF_vars(Next)

\* ------------------------------------------------------------ claims
TextOps == {i \in DOMAIN ops : ops[i].op = "use_text"}
ImageOps == {i \in DOMAIN ops : ops[i].op = "add_image"}
Items == TextOps \cup ImageOps

\* the height of item i, computed from the data of the command
printable_width == page_width - 2 * margin
ItemHeight(i) ==
    IF ops[i].op = "use_text" THEN line_height
    ELSE (ops[i].height * printable_width) \div ops[i].width
\* a page was added right before item i
PageAddedBefore(i) == i > 1 /\ ops[i-1].op = "add_page"
\* the cursor at which the code arrived at item i, before any page break for it
CursorBefore(i) == IF PageAddedBefore(i) THEN ops[i-1].cursor ELSE ops[i].cursor
\* placing item i at the cursor the code arrived with would cross the bottom margin
WouldOverflow(i) == CursorBefore(i) - ItemHeight(i) < margin
\* the page of the item before item i (page 0 when there is none)
PrevItems(i) == {j \in Items : j < i}
PrevPage(i) ==
    IF PrevItems(i) = {} THEN 0
    ELSE ops[CHOOSE j \in PrevItems(i) : \A k \in PrevItems(i) : k <= j].page

\* The runs read and the commands emitted are only ever appended to, so what
\* holds of a run (a paragraph) in the state that ends it holds of it ever after;
\* the claims about a whole run (paragraph) are stated of that state.
\* run r of child c has just been laid out completely
RunDone(c, r) == pc = "runs" /\ c = Len(docx) /\ r = Len(docx[c].runs)
\* child c has just been laid out completely
ChildDone(c) == pc = "children" /\ c = Len(docx)
TextRuns == {cr \in {<<c, r>> : c \in DOMAIN docx, r \in 1..MaxInputs + 1} :
                /\ cr[2] <= Len(docx[cr[1]].runs)
                /\ docx[cr[1]].runs[cr[2]].kind = "Text"}
Content(cr) == docx[cr[1]].runs[cr[2]].content
LinesOfRun(cr) == {i \in TextOps : ops[i].src = cr}
LinesOfChild(c) == {i \in TextOps : ops[i].src[1] = c}
\* characters of the words of a text
WordChars(s) == Cardinality({i \in 1..Len(s) : ~is_whitespace(s[i])})
RECURSIVE SumWordChars(_)
SumWordChars(runs) ==
    IF runs = <<>> THEN 0 ELSE WordChars(Head(runs).content) + SumWordChars(Tail(runs))
CeilDiv(a, b) == (a + b - 1) \div b
\* characters of an emitted line: its words and the single spaces between them
LineChars(t) == IF t = <<>> THEN 0 ELSE Len(t) - 1
\* the line holds one word only, and that word alone reaches the budget
SingleOverlongWord(t) ==
    /\ Cardinality(WordStarts(t)) = 1
    /\ WordChars(t) >= W
\* the word of s that starts at position i
WordAt(s, i) ==
    SubSeq(s, i, CHOOSE j \in i..Len(s) :
                    /\ \A k \in i..j : ~is_whitespace(s[k])
                    /\ (j = Len(s) \/ is_whitespace(s[j+1])))
\* some word of the runs reaches the budget on its own
HasOverlongWord(runs) ==
    \E r \in DOMAIN runs : \E i \in WordStarts(runs[r].content) :
        len(WordAt(runs[r].content, i)) >= W
\* the text holds at least one word
HasWord(s) == \E i \in DOMAIN s : ~is_whitespace(s[i])

\* C1: every emitted command (wrapped line, final-flush line, image) has a y
\* with margin <= y <= page_height - margin.
C1_WithinMargins ==
    \A i \in Items : margin <= ops[i].y /\ ops[i].y <= page_height - margin

\* C2: for every text line the test y - line_height < margin is made before the
\* line is emitted, a true test moving the line to the top of a new page; so no
\* line is emitted at a cursor where the test is true.
C2_CheckBeforeEmit ==
    \A i \in TextOps : ~(ops[i].cursor - line_height < margin)

\* C3: for every image a new page is started exactly when y - h < margin for the
\* current cursor y and the image's full scaled height h.
C3_ImageBreakUsesHeight ==
    \A i \in ImageOps : PageAddedBefore(i) <=> WouldOverflow(i)

\* C4: the page index never decreases over the emitted commands, and it goes up
\* by exactly 1 each time, and only when, placing the next item at the current
\* cursor would violate the margin bound.
C4_PageIndex ==
    /\ \A i \in Items : ops[i].page >= PrevPage(i)
    /\ \A i \in Items : ops[i].page = PrevPage(i) + (IF WouldOverflow(i) THEN 1 ELSE 0)

\* C5 as stated: every run whose text is shorter than W yields exactly one text
\* line.
C5_ShortTextOneLine ==
    \A cr \in TextRuns :
        (RunDone(cr[1], cr[2]) /\ len(Content(cr)) < W)
            => Cardinality(LinesOfRun(cr)) = 1

\* C5 amended: every run whose text is shorter than W (str::len) and holds at
\* least one word yields exactly one text line.
C5_ShortNonEmptyTextOneLine ==
    \A cr \in TextRuns :
        (RunDone(cr[1], cr[2]) /\ len(Content(cr)) < W /\ HasWord(Content(cr)))
            => Cardinality(LinesOfRun(cr)) = 1

C5_Witness ==
    \E cr \in TextRuns :
        /\ RunDone(cr[1], cr[2])
        /\ Content(cr) = Letters(W - 1)
        /\ Cardinality(LinesOfRun(cr)) = 1

\* the bound on the characters of every emitted line, common to C6 and its
\* amendment
LineWidthBound ==
    \A i \in TextOps : LineChars(ops[i].text) < W \/ SingleOverlongWord(ops[i].text)

\* C6 as stated: every paragraph has at least ceil(total_word_chars / W) lines,
\* and every line has fewer than W characters unless it holds a single
\* over-long word.
C6_LineCountAndWidth ==
    /\ \A c \in DOMAIN docx :
        ChildDone(c) =>
            Cardinality(LinesOfChild(c)) >= CeilDiv(SumWordChars(docx[c].runs), W)
    /\ LineWidthBound

\* C6 amended: every paragraph none of whose words reaches W has at least
\* ceil(total_word_chars / W) lines, and every line has fewer than W characters
\* unless it holds a single over-long word.
C6_LineCountWithoutOverlong ==
    /\ \A c \in DOMAIN docx :
        (ChildDone(c) /\ ~HasOverlongWord(docx[c].runs)) =>
            Cardinality(LinesOfChild(c)) >= CeilDiv(SumWordChars(docx[c].runs), W)
    /\ LineWidthBound

C6_Witness ==
    /\ \E c \in DOMAIN docx :
        /\ ChildDone(c)
        /\ ~HasOverlongWord(docx[c].runs)
        /\ SumWordChars(docx[c].runs) > W
        /\ \E i \in LinesOfChild(c) : Cardinality(WordStarts(ops[i].text)) > 1
    /\ \E i \in TextOps : SingleOverlongWord(ops[i].text)

\* the document is the single paragraph with the single run of text t, laid out
OnlyRun(t) ==
    /\ pc \in {"images", "done"}
    /\ images = <<>>
    /\ docx = <<[kind |-> "Paragraph", runs |-> <<TextRun(t, "None")>>]>>

\* C7: every text line is emitted at x = margin and at y = the cursor at the
\* moment of emission, wrapped and final flushes alike; "Hello world" alone
\* gives exactly one line, at (20, 277), regular font, text "Hello world ",
\* page 0.
C7_TextAtCursor ==
    /\ \A i \in TextOps : ops[i].x = margin /\ ops[i].y = ops[i].cursor
    /\ OnlyRun(HelloWorld) =>
        /\ Len(ops) = 1
        /\ ops[1].op = "use_text"
        /\ ops[1].x = mm(20) /\ ops[1].y = mm(277)
        /\ ops[1].font = "regular_font"
        /\ ops[1].text = HelloWorld \o <<SPACE>>
        /\ ops[1].page = 0

\* C8: the first line placed on a page that text layout allocated is emitted at
\* y = page_height - margin; a paragraph of 30 lines is split across exactly 2
\* pages.
C8_FirstLineOfNewPage ==
    /\ \A i \in TextOps : PageAddedBefore(i) => ops[i].y = page_height - margin
    /\ OnlyRun(WordsText(LongLines, 40)) =>
        /\ Cardinality(TextOps) = LongLines
        /\ {ops[i].page : i \in TextOps} = {0, 1}

\* C9: the scale of every image is (page_width - 2*margin) / pixel_width,
\* whatever the cursor and the page are.
C9_ScaleIsWidthFit ==
    \A i \in ImageOps : ops[i].scale * ops[i].width = page_width - 2 * margin

C9_Witness ==
    \E i, j \in ImageOps :
        /\ ops[i].width = ops[j].width
        /\ ops[i].cursor # ops[j].cursor
        /\ ops[i].page # ops[j].page
        /\ ops[i].scale = ops[j].scale

\* C10: every image is anchored at (margin, y - scaled_height), y the cursor
\* after the page-break decision, and lowers the cursor by scaled_height + 10;
\* a 400x300 image has scaled height 127.5 and lowers the cursor by 137.5.
C10_ImageAnchorAndAdvance ==
    \A i \in ImageOps :
        /\ ops[i].x = margin
        /\ ops[i].y = ops[i].cursor - ItemHeight(i)
        /\ i = Len(ops) => y_position = ops[i].cursor - ItemHeight(i) - mm(10)
        /\ i < Len(ops) => ops[i+1].cursor = ops[i].cursor - ItemHeight(i) - mm(10)
        /\ (ops[i].width = 400 /\ ops[i].height = 300) =>
            /\ 2 * (ops[i].cursor - ops[i].y) = mm(255)
            /\ i = Len(ops) => 2 * (ops[i].cursor - y_position) = mm(275)

C10_Witness ==
    /\ Len(ops) = 1
    /\ ops[1].op = "add_image"
    /\ ops[1].width = 400 /\ ops[1].height = 300
    /\ ops[1].cursor = mm(277)
    /\ 2 * ops[1].y = mm(299)
    /\ 2 * y_position = mm(279)

\* the states of the orchestration: Idle, LayingOutParagraphs, LayingOutImages,
\* Done
Phase(p) ==
    CASE p \in {"main", "exit"} -> 0
      [] p \in {"children", "runs", "words"} -> 1
      [] p = "images" -> 2
      [] OTHER -> 3
ImagesInOrder ==
    \A j \in ImageOps :
        /\ ops[j].src[1] = Cardinality({k \in ImageOps : k <= j})
        /\ ops[j].src[1] <= Len(images)
        /\ ops[j].width = images[ops[j].src[1]].width
        /\ ops[j].height = images[ops[j].src[1]].height
\* the cursor the item just added to ops arrived with
ArrivedAt ==
    IF Len(ops') = Len(ops) + 2 THEN ops'[Len(ops) + 1].cursor ELSE ops'[Len(ops')].cursor

\* C11: the layout goes Idle -> LayingOutParagraphs -> LayingOutImages -> Done;
\* every text line is emitted before any image, the images are placed in
\* extraction order, the first image continues from the page and the cursor
\* where the text ended, and the page index is never taken back.
C11_Orchestration ==
    /\ [](/\ \A i \in TextOps : \A j \in ImageOps : i < j
          /\ ImagesInOrder
          /\ (ImageOps # {} => pc \in {"images", "done", "failed"}))
    /\ [][/\ Phase(pc') \in {Phase(pc), Phase(pc) + 1}
          /\ current_layer' >= current_layer
          /\ (Phase(pc) = 1 /\ Phase(pc') = 2) =>
                (y_position' = y_position /\ current_layer' = current_layer)
          /\ (pc = "images" /\ images = <<>> /\ images' # <<>>) =>
                /\ ArrivedAt = y_position
                /\ ops'[Len(ops')].page \in {current_layer, current_layer + 1}]_vars

C11_Witness ==
    /\ Cardinality(ImageOps) >= 2
    /\ \E t \in TextOps : ops[t].page = 1
    /\ \A j \in ImageOps : ops[j].page >= 1
    /\ pc = "done"

\* C12: for every finite input (an empty document, empty paragraphs, empty runs
\* and no image included) the layout, once started, reaches Done, and no error
\* is raised while it runs; with no paragraph and no image no command is
\* emitted.
C12_LayoutTerminates ==
    /\ (Phase(pc) = 1) ~> (Phase(pc) = 3)
    /\ [](Phase(pc) \in {1, 2} => result = "")
    /\ []((Phase(pc) = 3 /\ docx = <<>> /\ images = <<>>) => ops = <<>>)

C12_Witness ==
    /\ pc = "done"
    /\ docx = <<>>
    /\ images = <<>>
    /\ ops = <<>>

\* C14: with a wrong number of arguments the program exits with status 1, and
\* with an input path that does not exist or does not end in ".docx" it fails
\* with InvalidInput; in both cases nothing was read, parsed or extracted, no
\* command was emitted and the output file is as it was.
C14_RejectedBeforeAnyStep ==
    /\ (pc # "main" /\ args.argc # 3) => result = "exit(1)"
    /\ (pc # "main" /\ args.argc = 3 /\ (~args.exists \/ ~args.docx_ext))
          => result = "InvalidInput"
    /\ result \in {"exit(1)", "InvalidInput"}
          => /\ pc = "exit"
             /\ steps = {}
             /\ docx = <<>>
             /\ images = <<>>
             /\ ops = <<>>
             /\ output = "before"

C14_Witness ==
    /\ pc = "exit"
    /\ args.argc = 3
    /\ args.exists
    /\ ~args.docx_ext
    /\ result = "InvalidInput"

\* C15 as stated: the final flush of a run's remaining buffer leaves the cursor
\* y unchanged.
C15_FinalFlushKeepsCursor ==
    [][(pc = "words" /\ words = <<>>) => y_position' = y_position]_vars

\* C15: the final flush of a run lowers the cursor by line_height when the
\* remaining buffer is not empty and leaves it unchanged when it is empty; after
\* the last run of the paragraph the cursor is lowered by one further
\* line_height.
C15_FinalFlushAdvancesCursor ==
    [][/\ (pc = "words" /\ words = <<>> /\ current_line # <<>>)
            => y_position' = y_position - line_height
       /\ (pc = "words" /\ words = <<>> /\ current_line = <<>>)
            => y_position' = y_position
       /\ (pc = "runs" /\ pc' = "children")
            => y_position' = y_position - line_height]_vars

\* two runs of one paragraph have each flushed a final line, the second one
\* line_height below the first, and the cursor is one line_height below that
C15_Witness ==
    /\ pc = "runs"
    /\ \E i \in TextOps : \E j \in TextOps :
        /\ i < j
        /\ j = Len(ops)
        /\ ops[i].flush = "final"
        /\ ops[j].flush = "final"
        /\ ops[i].src[1] = ops[j].src[1]
        /\ ops[i].src[2] < ops[j].src[2]
        /\ ops[j].y = ops[i].y - line_height
        /\ y_position = ops[j].y - line_height

\* the words of the lines emitted for run cr among the first n commands, read
\* in order
RECURSIVE WordsOfLines(_, _)
WordsOfLines(cr, n) ==
    IF n = 0 THEN <<>>
    ELSE WordsOfLines(cr, n - 1)
            \o (IF ops[n].op = "use_text" /\ ops[n].src = cr
                THEN split_whitespace(ops[n].text) ELSE <<>>)

\* C16: when a run has been laid out, the words of its emitted lines read in
\* order are exactly the whitespace-separated words of its text; a line that
\* holds a word of length >= W holds no other word; a run without a word emits
\* no line.
C16_WordsPreserved ==
    \A cr \in TextRuns :
        RunDone(cr[1], cr[2]) =>
            /\ WordsOfLines(cr, Len(ops)) = split_whitespace(Content(cr))
            /\ \A i \in LinesOfRun(cr) :
                 (\E k \in WordStarts(ops[i].text) : len(WordAt(ops[i].text, k)) >= W)
                    => Cardinality(WordStarts(ops[i].text)) = 1
            /\ ~HasWord(Content(cr)) => LinesOfRun(cr) = {}

\* the run "Hello <W letters> world" has been laid out in three lines of one
\* word each
C16_Witness ==
    /\ pc = "runs"
    /\ Len(docx) = 1
    /\ docx[1].runs = <<TextRun(OverlongAmid, "None")>>
    /\ Cardinality(LinesOfRun(<<1, 1>>)) = 3
    /\ \A i \in LinesOfRun(<<1, 1>>) : Cardinality(WordStarts(ops[i].text)) = 1

\* the item emitted last before item i
PrevItem(i) == CHOOSE j \in PrevItems(i) : \A k \in PrevItems(i) : k <= j

\* C17: of any two items emitted consecutively on the same page, the later one
\* has the strictly smaller y.
C17_TopToBottom ==
    \A i \in Items :
        (PrevItems(i) # {} /\ ops[PrevItem(i)].page = ops[i].page)
            => ops[i].y < ops[PrevItem(i)].y

\* C18: when serializing the document fails the output file is as it was before
\* the run, and the file is only ever changed by a write that ran to completion.
C18_OutputWrittenWholeOrNotAtAll ==
    /\ result = "Pdf" => output = "before"
    /\ output \in {"before", "written"}

\* the run a text line was emitted for
RunOf(i) == docx[ops[i].src[1]].runs[ops[i].src[2]]
\* the font the style of a run asks for
StyleFont(run) ==
    IF run.properties = "Bold" THEN "bold_font"
    ELSE IF run.properties = "Italic" THEN "italic_font"
    ELSE "regular_font"

\* C19: every text line carries the font its run's style asks for (Bold ->
\* bold, Italic -> italic, anything else -> regular); the buffer is empty when
\* a run starts, and every line emitted while a run is laid out is that
\* buffer, so no line holds words of two runs.
C19_FontAndBufferPerRun ==
    /\ [](\A i \in TextOps : RunOf(i).kind = "Text" /\ ops[i].font = StyleFont(RunOf(i)))
    /\ [][/\ (pc = "runs" /\ pc' = "words") => current_line' = <<>>
          /\ (pc = "words" /\ Len(ops') > Len(ops))
                => /\ ops'[Len(ops) + 1].text = current_line
                   /\ ops'[Len(ops) + 1].src = CurSrc
                   /\ ops'[Len(ops) + 1].font = StyleFont(docx[CurSrc[1]].runs[CurSrc[2]])]_vars

\* a paragraph of a regular and a bold run: the bold run's line "Hello world "
\* follows a line in the regular font
C19_Witness ==
    /\ pc = "runs"
    /\ \E i \in TextOps : \E j \in TextOps :
        /\ i < j
        /\ ops[i].src[1] = ops[j].src[1]
        /\ ops[i].src[2] < ops[j].src[2]
        /\ ops[i].font = "regular_font"
        /\ ops[j].font = "bold_font"
        /\ ops[j].text = HelloWorld \o <<SPACE>>

\* C20: every emitted text line holds at least one word.
C20_NoEmptyLine ==
    \A i \in TextOps : HasWord(ops[i].text)

====
